---- MODULE Spec2Model ----
(***************************************************************************)
(* Model of browser/ui/views/infobars/brave_wayback_machine_infobar_view.cc *)
(*                                                                         *)
(* The infobar view (BraveWaybackMachineInfoBarView), its sub-view         *)
(* container (InfoBarViewSubViews), the lookup request it issues through a *)
(* SimpleURLLoader and the handling of the loader's completion.            *)
(***************************************************************************)
EXTENDS Integers, Sequences, FiniteSets, TLC

(***************************************************************************)
(* Bounds of the model.                                                    *)
(***************************************************************************)
\* Number of button presses explored over the life of one infobar.
MaxPresses == 2

(***************************************************************************)
(* Program constants.                                                      *)
(***************************************************************************)
kWaybackQueryURL == "https://archive.org/wayback/available?url="

kMaxBodySize == 1024 * 1024

\* ThemeProperties colour ids used for the labels and the separator.
kInfoBarLabelBackgroundColor == "COLOR_INFOBAR"

kInfoBarLabelTextColor == "COLOR_BOOKMARK_TEXT"

\* The dotted path "archived_snapshots.closest.url" as base::Value::FindPath
\* splits it: one component per dot-separated segment.
kSnapshotPath == <<"archived_snapshots", "closest", "url">>

(***************************************************************************)
(* The child controls created by InitializeChildren, in creation order.    *)
(***************************************************************************)
Controls ==
    << "image_view", "separator", "page_missing_label", "ask_about_check_label",
       "place_holder_view", "not_available_label", "sad_icon", "check_button" >>

\* push_back order of views_visible_before_checking_ (lines 133, 144, 156, 188)
views_visible_before_checking_ ==
    << "page_missing_label", "ask_about_check_label", "place_holder_view",
       "check_button" >>

\* push_back order of views_visible_after_checking_ (lines 168, 178)
views_visible_after_checking_ == << "not_available_label", "sad_icon" >>

\* labels_: every label made by CreateLabel (lines 128, 142, 165)
labels_ == << "page_missing_label", "ask_about_check_label", "not_available_label" >>

Range(seq) == { seq[i] : i \in DOMAIN seq }

(***************************************************************************)
(* JSON text and base::JSONReader::Read.                                   *)
(*                                                                         *)
(* A response body is a sequence of lexical tokens.  P is a punctuation    *)
(* token, S a string literal, N a number literal, W a bare word (true,     *)
(* false, null or anything else that is no JSON).                          *)
(***************************************************************************)
P(c) == [t |-> "punct", v |-> c]

S(s) == [t |-> "string", v |-> s]

N(n) == [t |-> "number", v |-> n]

W(w) == [t |-> "word", v |-> w]

\* base::Value of each type the reader can produce.
StringValue(s) == [type |-> "string", str |-> s]

NumberValue(n) == [type |-> "number", num |-> n]

WordValue(w) == [type |-> IF w = "null" THEN "none" ELSE "boolean", word |-> w]

ListValue(items) == [type |-> "list", list |-> items]

DictValue(d) == [type |-> "dict", dict |-> d]

ParseError == [ok |-> FALSE]

Parsed(v, i) == [ok |-> TRUE, val |-> v, next |-> i]

IsPunct(toks, i, c) == i <= Len(toks) /\ toks[i] = P(c)

RECURSIVE ParseValue(_, _)
RECURSIVE ParseMembers(_, _, _)
RECURSIVE ParseElements(_, _, _)

\* Members of an object after "{": string ":" value, separated by ",".
\* A repeated key replaces the earlier entry; a trailing comma is an error.
ParseMembers(toks, i, d) ==
    IF i + 1 > Len(toks) \/ toks[i].t # "string" \/ ~IsPunct(toks, i + 1, ":")
    THEN ParseError
    ELSE LET r == ParseValue(toks, i + 2) IN
         IF ~r.ok THEN ParseError
         ELSE LET d2 == (toks[i].v :> r.val) @@ d IN
              IF IsPunct(toks, r.next, "}") THEN Parsed(DictValue(d2), r.next + 1)
              ELSE IF IsPunct(toks, r.next, ",") THEN ParseMembers(toks, r.next + 1, d2)
              ELSE ParseError

\* Elements of a list after "[": values separated by ",".
ParseElements(toks, i, items) ==
    LET r == ParseValue(toks, i) IN
    IF ~r.ok THEN ParseError
    ELSE LET l2 == Append(items, r.val) IN
         IF IsPunct(toks, r.next, "]") THEN Parsed(ListValue(l2), r.next + 1)
         ELSE IF IsPunct(toks, r.next, ",") THEN ParseElements(toks, r.next + 1, l2)
         ELSE ParseError

ParseValue(toks, i) ==
    IF i > Len(toks) THEN ParseError
    ELSE LET tok == toks[i] IN
         CASE tok.t = "string" -> Parsed(StringValue(tok.v), i + 1)
           [] tok.t = "number" -> Parsed(NumberValue(tok.v), i + 1)
           [] tok.t = "word" ->
                IF tok.v \in {"true", "false", "null"}
                THEN Parsed(WordValue(tok.v), i + 1)
                ELSE ParseError
           [] tok = P("{") ->
                IF IsPunct(toks, i + 1, "}") THEN Parsed(DictValue(<<>>), i + 2)
                ELSE ParseMembers(toks, i + 1, <<>>)
           [] tok = P("[") ->
                IF IsPunct(toks, i + 1, "]") THEN Parsed(ListValue(<<>>), i + 2)
                ELSE ParseElements(toks, i + 1, <<>>)
           [] OTHER -> ParseError

\* base::JSONReader::Read: the parsed root value, or no value when the text
\* is not one JSON value followed by nothing.
NoValue == [ok |-> FALSE]

JSONReaderRead(toks) ==
    LET r == ParseValue(toks, 1) IN
    IF r.ok /\ r.next = Len(toks) + 1 THEN [ok |-> TRUE, val |-> r.val] ELSE NoValue


(***************************************************************************)
(* base::Value::FindPath(StringPiece) and base::Value::GetString.          *)
(*                                                                         *)
(* FindPath CHECKs that the receiver is a dictionary, then walks the path: *)
(* a missing key or a non-dictionary on the way gives nullptr; the type of *)
(* the leaf is not looked at.  GetString CHECKs that the value is a        *)
(* string.  A failed CHECK terminates the browser process.                 *)
(***************************************************************************)
CheckFailure == [kind |-> "check_failure"]

Nullptr == [kind |-> "nullptr"]

Found(v) == [kind |-> "value", val |-> v]

RECURSIVE FindPathFrom(_, _, _)
FindPathFrom(cur, path, i) ==
    IF i > Len(path) THEN Found(cur)
    ELSE IF cur.type # "dict" THEN Nullptr
    ELSE IF path[i] \notin DOMAIN cur.dict THEN Nullptr
    ELSE FindPathFrom(cur.dict[path[i]], path, i + 1)

FindPath(root, path) ==
    IF root.type # "dict" THEN CheckFailure ELSE FindPathFrom(root, path, 1)

\* Variant: no CHECK; a value of another type reads as the empty string.
GetString_Unchecked(v) ==
    [kind |-> "value", str |-> IF v.type = "string" THEN v.str ELSE ""]

GetString(v) ==
    IF v.type = "string" THEN [kind |-> "value", str |-> v.str] ELSE CheckFailure

(***************************************************************************)
(* URLs.  A page URL is the canonical spec of the tab's visible URL; GURL  *)
(* keeps a canonical spec as it is and turns any other text into the       *)
(* invalid, empty URL.                                                     *)
(***************************************************************************)
PageURLs == {"http://a.test/gone", "http://b.test/gone"}

ArchiveURLs == {"http://web.archive.org/web/1/a", "http://web.archive.org/web/2/b"}

CanonicalSpecs ==
    PageURLs \cup ArchiveURLs
        \cup { kWaybackQueryURL \o u : u \in PageURLs \cup ArchiveURLs }

EmptyGURL == [is_valid |-> FALSE, spec |-> ""]

GURL(text) ==
    IF text \in CanonicalSpecs THEN [is_valid |-> TRUE, spec |-> text] ELSE EmptyGURL

(***************************************************************************)
(* Responses of the archive service as the loader sees them.               *)
(***************************************************************************)
Obj(members) == <<P("{")>> \o members \o <<P("}")>>

Member(k, value) == <<S(k), P(":")>> \o value

Snapshot(leaf) ==
    Obj(Member("archived_snapshots", Obj(Member("closest", Obj(Member("url", leaf))))))

Bodies ==
    { <<>>,                                                   \* empty text
      <<W("<html>")>>,                                        \* not JSON
      Obj(<<>>),                                              \* {}
      <<P("["), P("]")>>,                                     \* []
      <<S("http://web.archive.org/web/1/a")>>,                \* a bare string
      Obj(Member("archived_snapshots", Obj(<<>>))),
      Obj(Member("archived_snapshots", <<P("["), P("]")>>)),
      Obj(Member("archived_snapshots",
                 Obj(Member("closest", Obj(Member("available", <<W("true")>>)))))),
      Obj(Member("archived_snapshots.closest.url",
                 <<S("http://web.archive.org/web/1/a")>>)),
      Snapshot(<<S("http://web.archive.org/web/1/a")>>),
      Obj(Member("url", <<S("http://a.test/gone")>>) \o <<P(",")>>
            \o Member("archived_snapshots",
                 Obj(Member("closest",
                            Obj(Member("status", <<S("200")>>) \o <<P(",")>>
                                  \o Member("url", <<N("1")>>) \o <<P(",")>>
                                  \o Member("url",
                                        <<S("http://web.archive.org/web/2/b")>>)))))),
      Snapshot(<<S("not a url")>>),
      Snapshot(<<N("404")>>),
      Snapshot(<<W("null")>>),
      Snapshot(<<P("["), S("http://web.archive.org/web/1/a"), P("]")>>),
      Snapshot(Obj(<<>>)),
      Snapshot(<<S("http://web.archive.org/web/1/a")>>) \o <<P("}")>>,
      <<P("{")>> \o Member("archived_snapshots", Obj(<<>>)) \o <<P(","), P("}")>> }

BodySizes == {kMaxBodySize, kMaxBodySize + 1}

NetError == [net_error |-> TRUE, size |-> 0, text |-> <<>>]

Responses ==
    {NetError} \cup
    { [net_error |-> FALSE, size |-> sz, text |-> t] : sz \in BodySizes, t \in Bodies }

\* std::unique_ptr<std::string>: null, or the text of the body.
NoBody == [present |-> FALSE, text |-> <<>>]

Body(text) == [present |-> TRUE, text |-> text]

\* SimpleURLLoader::DownloadToString(factory, callback, kMaxBodySize): the
\* callback gets null on a network error or when the body exceeds the limit.
DownloadToString(resp) ==
    IF resp.net_error \/ resp.size > kMaxBodySize THEN NoBody ELSE Body(resp.text)


(***************************************************************************)
(* State of one infobar instance and of what it talks to.                  *)
(***************************************************************************)
VARIABLES
    visible,               \* View::GetVisible of every child control
    label_colors,          \* background and enabled colour of every label
    separator_color,       \* colour of separator_
    theme,                 \* the theme provider the view resolves colours with
    view_state,            \* "shown", "closing" (removal requested), "destroyed"
    visible_url,           \* contents_->GetVisibleURL().spec()
    wayback_url_fetcher_,  \* id of the loader the view holds, 0 for none
    pending,               \* live loaders whose completion is still to come
    inflight,              \* requests the network has not answered yet
    requests,              \* URL of every request issued, in order
    presses,               \* ButtonPressed calls handled
    calls,                 \* LoadURL and RemoveInfoBar calls made, in order
    handled,               \* completions delivered to OnWaybackURLFetched
    crashed,               \* a CHECK failed: the process is gone
    use_after_free,        \* a completion ran on a destroyed view
    last                   \* the handler that ran last and its input

vars ==
    << visible, label_colors, separator_color, theme, view_state, visible_url,
       wayback_url_fetcher_, pending, inflight, requests, presses, calls, handled,
       crashed, use_after_free, last >>

Themes == {"none", "light", "dark"}

\* The state as one record, so that a handler is a function from the state
\* before it runs to the state after.
Cur ==
    [ visible |-> visible, label_colors |-> label_colors,
      separator_color |-> separator_color, theme |-> theme,
      view_state |-> view_state, visible_url |-> visible_url,
      wayback_url_fetcher_ |-> wayback_url_fetcher_, pending |-> pending,
      inflight |-> inflight, requests |-> requests, presses |-> presses,
      calls |-> calls, handled |-> handled, crashed |-> crashed,
      use_after_free |-> use_after_free, last |-> last ]

Apply(s) ==
    /\ visible' = s.visible
    /\ label_colors' = s.label_colors
    /\ separator_color' = s.separator_color
    /\ theme' = s.theme
    /\ view_state' = s.view_state
    /\ visible_url' = s.visible_url
    /\ wayback_url_fetcher_' = s.wayback_url_fetcher_
    /\ pending' = s.pending
    /\ inflight' = s.inflight
    /\ requests' = s.requests
    /\ presses' = s.presses
    /\ calls' = s.calls
    /\ handled' = s.handled
    /\ crashed' = s.crashed
    /\ use_after_free' = s.use_after_free
    /\ last' = s.last

(***************************************************************************)
(* InfoBarViewSubViews.                                                    *)
(***************************************************************************)
\* GetColor: the theme provider's colour, or the placeholder without one.
GetColor(s, id) ==
    IF s.theme = "none" THEN "kPlaceholderColor" ELSE s.theme \o ":" \o id

\* CreateLabel / OnThemeChanged: what each label is coloured with.
LabelColors(s) ==
    [ background |-> GetColor(s, kInfoBarLabelBackgroundColor),
      enabled |-> GetColor(s, kInfoBarLabelTextColor) ]

\* Variant: the after-check set is given the same visibility as the
\* before-check set (the negation on line 213 left out).
UpdateChildrenVisibility_SameForBoth(s, show_before_checking_views) ==
    [ s EXCEPT !.visible =
        [ c \in DOMAIN s.visible |->
            IF c \in Range(views_visible_before_checking_)
                 \/ c \in Range(views_visible_after_checking_)
            THEN show_before_checking_views
            ELSE s.visible[c] ] ]

\* Variant: the check button is not part of the before-check set (the
\* push_back on line 188 left out), so it is never hidden.
UpdateChildrenVisibility_ButtonLeftOut(s, show_before_checking_views) ==
    [ s EXCEPT !.visible =
        [ c \in DOMAIN s.visible |->
            IF c \in Range(views_visible_before_checking_) \ {"check_button"}
            THEN show_before_checking_views
            ELSE IF c \in Range(views_visible_after_checking_)
            THEN ~show_before_checking_views
            ELSE s.visible[c] ] ]

UpdateChildrenVisibility(s, show_before_checking_views) ==
    [ s EXCEPT !.visible =
        [ c \in DOMAIN s.visible |->
            IF c \in Range(views_visible_before_checking_)
            THEN show_before_checking_views
            ELSE IF c \in Range(views_visible_after_checking_)
            THEN ~show_before_checking_views
            ELSE s.visible[c] ] ]

\* Every child is created visible, every label coloured by CreateLabel, the
\* separator keeps its default colour, and the before-check set is shown.
InitializeChildren(s) ==
    UpdateChildrenVisibility(
        [ s EXCEPT !.visible = [ c \in Range(Controls) |-> TRUE ],
                   !.label_colors = [ l \in Range(labels_) |-> LabelColors(s) ],
                   !.separator_color = "default" ],
        TRUE)

OnThemeChanged(s) ==
    [ s EXCEPT !.label_colors = [ l \in Range(labels_) |-> LabelColors(s) ],
               !.separator_color = GetColor(s, kInfoBarLabelTextColor) ]

(***************************************************************************)
(* BraveWaybackMachineInfoBarView.                                         *)
(***************************************************************************)
\* Variant: the URL is computed at the first press and reused afterwards.
FetchWaybackURL_CachedURL(s) ==
    LET id == Len(s.requests) + 1
        url == IF s.requests = <<>> THEN GURL(kWaybackQueryURL \o s.visible_url)
               ELSE s.requests[1]
    IN  [ s EXCEPT !.requests = Append(@, url),
                   !.wayback_url_fetcher_ = id,
                   !.pending = (@ \ {s.wayback_url_fetcher_}) \cup {id},
                   !.inflight = @ \cup {id} ]

\* Variant: the loader held before is kept alive next to the new one.
FetchWaybackURL_KeepsOldLoader(s) ==
    LET id == Len(s.requests) + 1
    IN  [ s EXCEPT !.requests = Append(@, GURL(kWaybackQueryURL \o s.visible_url)),
                   !.wayback_url_fetcher_ = id,
                   !.pending = @ \cup {id},
                   !.inflight = @ \cup {id} ]

\* Assigning wayback_url_fetcher_ destroys the loader held before; a
\* destroyed loader never runs its callback.
FetchWaybackURL(s) ==
    LET wayback_fetch_url == kWaybackQueryURL \o s.visible_url
        id == Len(s.requests) + 1
    IN  [ s EXCEPT !.requests = Append(@, GURL(wayback_fetch_url)),
                   !.wayback_url_fetcher_ = id,
                   !.pending = (@ \ {s.wayback_url_fetcher_}) \cup {id},
                   !.inflight = @ \cup {id} ]

ButtonPressed(s) == FetchWaybackURL([ s EXCEPT !.presses = @ + 1 ])

\* Variant: a failed lookup is retried at once.
OnWaybackURLFetchFailed_Retry(s) ==
    FetchWaybackURL(UpdateChildrenVisibility(s, FALSE))

OnWaybackURLFetchFailed(s) == UpdateChildrenVisibility(s, FALSE)

\* contents_->GetController().LoadURL(GURL(last_wayback_url), ...): a valid
\* URL becomes the tab's pending, visible URL.
LoadURL(s, last_wayback_url) ==
    LET url == GURL(last_wayback_url) IN
    [ s EXCEPT !.calls = Append(@, [call |-> "LoadURL", url |-> url]),
               !.visible_url = IF url.is_valid THEN url.spec ELSE @ ]

\* InfoBarService::RemoveInfoBar(this): the service lets go of the infobar,
\* which hides and is deleted by the host later.
RemoveInfoBar(s) ==
    [ s EXCEPT !.calls = Append(@, [call |-> "RemoveInfoBar", url |-> EmptyGURL]),
               !.view_state = "closing" ]

Crash(s) == [ s EXCEPT !.crashed = TRUE ]

OnWaybackURLFetched(s, response_body) ==
    IF ~response_body.present THEN OnWaybackURLFetchFailed(s)
    ELSE LET result == JSONReaderRead(response_body.text) IN
         IF ~result.ok THEN OnWaybackURLFetchFailed(s)
         ELSE LET found == FindPath(result.val, kSnapshotPath) IN
              IF found = CheckFailure THEN Crash(s)
              ELSE IF found = Nullptr THEN OnWaybackURLFetchFailed(s)
              ELSE LET str == GetString(found.val) IN
                   IF str = CheckFailure THEN Crash(s)
                   ELSE RemoveInfoBar(LoadURL(s, str.str))

\* ~BraveWaybackMachineInfoBarView: the members go, the held loader with them.
Destructor(s) ==
    [ s EXCEPT !.view_state = "destroyed",
               !.pending = @ \ {s.wayback_url_fetcher_},
               !.wayback_url_fetcher_ = 0 ]

\* The constructor: members set, sub-views built.
Constructor(page_url) ==
    InitializeChildren(
        [ visible |-> <<>>, label_colors |-> <<>>, separator_color |-> "default",
          theme |-> "none", view_state |-> "shown", visible_url |-> page_url,
          wayback_url_fetcher_ |-> 0, pending |-> {}, inflight |-> {},
          requests |-> <<>>, presses |-> 0, calls |-> <<>>, handled |-> 0,
          crashed |-> FALSE, use_after_free |-> FALSE,
          last |-> [op |-> "Constructor", id |-> 0, body |-> NoBody] ])

(***************************************************************************)
(* The state machine.                                                      *)
(***************************************************************************)
StateIs(s) ==
    /\ visible = s.visible
    /\ label_colors = s.label_colors
    /\ separator_color = s.separator_color
    /\ theme = s.theme
    /\ view_state = s.view_state
    /\ visible_url = s.visible_url
    /\ wayback_url_fetcher_ = s.wayback_url_fetcher_
    /\ pending = s.pending
    /\ inflight = s.inflight
    /\ requests = s.requests
    /\ presses = s.presses
    /\ calls = s.calls
    /\ handled = s.handled
    /\ crashed = s.crashed
    /\ use_after_free = s.use_after_free
    /\ last = s.last

Init == \E u \in PageURLs : StateIs(Constructor(u))

Alive == ~crashed /\ ~use_after_free

\* The toolkit delivers a press only to a visible button of a live view.
Press ==
    /\ Alive
    /\ view_state # "destroyed"
    /\ visible["check_button"]
    /\ presses < MaxPresses
    /\ Apply(ButtonPressed(
           [ Cur EXCEPT !.last = [op |-> "ButtonPressed", id |-> Len(requests) + 1,
                                  body |-> NoBody] ]))

\* A live loader completes and runs the callback bound to the view.
FetchCompleted ==
    /\ Alive
    /\ \E id \in pending, resp \in Responses :
         LET response_body == DownloadToString(resp)
             s == [ Cur EXCEPT !.pending = @ \ {id}, !.inflight = @ \ {id},
                               !.handled = @ + 1,
                               !.last = [op |-> "OnWaybackURLFetched", id |-> id,
                                         body |-> response_body] ]
         IN  IF view_state = "destroyed"
             THEN Apply([ s EXCEPT !.use_after_free = TRUE ])
             ELSE Apply(OnWaybackURLFetched(s, response_body))

\* The answer to a request whose loader is gone reaches nobody.
ResponseDropped ==
    /\ Alive
    /\ \E id \in inflight \ pending :
         Apply([ Cur EXCEPT !.inflight = @ \ {id},
                            !.last = [op |-> "ResponseDropped", id |-> id,
                                      body |-> NoBody] ])

ThemeChanged ==
    /\ Alive
    /\ view_state # "destroyed"
    /\ \E t \in Themes \ {theme} :
         Apply(OnThemeChanged(
             [ Cur EXCEPT !.theme = t,
                          !.last = [op |-> "OnThemeChanged", id |-> 0,
                                    body |-> NoBody] ]))

\* The tab's visible URL changes under the infobar (a pending or
\* same-document navigation).
VisibleURLChanged ==
    /\ Alive
    /\ view_state # "destroyed"
    /\ \E u \in PageURLs \ {visible_url} :
         Apply([ Cur EXCEPT !.visible_url = u,
                            !.last = [op |-> "VisibleURLChanged", id |-> 0,
                                      body |-> NoBody] ])

\* The host deletes the infobar: after a removal, or with the tab.
InfoBarDestroyed ==
    /\ Alive
    /\ view_state # "destroyed"
    /\ Apply(Destructor(
           [ Cur EXCEPT !.last = [op |-> "Destructor", id |-> 0, body |-> NoBody] ]))

Next ==
    \/ Press
    \/ FetchCompleted
    \/ ResponseDropped
    \/ ThemeChanged
    \/ VisibleURLChanged
    \/ InfoBarDestroyed

Spec == Init /\ [][Next]_vars


(***************************************************************************)
(* Vocabulary of the properties.                                           *)
(***************************************************************************)
BeforeCheckShown == \A c \in Range(views_visible_before_checking_) : visible[c]

BeforeCheckHidden == \A c \in Range(views_visible_before_checking_) : ~visible[c]

AfterCheckShown == \A c \in Range(views_visible_after_checking_) : visible[c]

AfterCheckHidden == \A c \in Range(views_visible_after_checking_) : ~visible[c]

\* What a body holds at archived_snapshots.closest.url, read off the
\* document itself: "absent" without a body, a JSON document, an object at
\* the root or the nested member; otherwise the type of the member (which is
\* "none" for a member holding null).
FieldType(body) ==
    IF ~body.present THEN "absent"
    ELSE LET doc == JSONReaderRead(body.text) IN
         IF ~doc.ok THEN "absent"
         ELSE IF doc.val.type # "dict" THEN "absent"
         ELSE LET at == FindPathFrom(doc.val, kSnapshotPath, 1) IN
              IF at.kind = "value" THEN at.val.type ELSE "absent"

FieldString(body) ==
    FindPathFrom(JSONReaderRead(body.text).val, kSnapshotPath, 1).val.str

HasField(body) == FieldType(body) # "absent"

HasStringField(body) == FieldType(body) = "string"

LoadURLCall(text) == [call |-> "LoadURL", url |-> GURL(text)]

RemoveInfoBarCall == [call |-> "RemoveInfoBar", url |-> EmptyGURL]

NumCalls(name) == Cardinality({ i \in DOMAIN calls : calls[i].call = name })

\* The step is the handling of one fetch completion.
CompletionHandled == handled' = handled + 1

(***************************************************************************)
(* Properties.                                                             *)
(***************************************************************************)

\* C1: in every reachable state the controls are in one of two
\* configurations: the whole before-check set visible and the whole
\* after-check set hidden, or the reverse.
C1_OneControlSetVisible ==
    \/ BeforeCheckShown /\ AfterCheckHidden
    \/ BeforeCheckHidden /\ AfterCheckShown

\* A failed lookup has switched the sets and a theme change came after it.
C1_Witness ==
    /\ BeforeCheckHidden /\ AfterCheckShown
    /\ handled >= 1
    /\ last.op = "OnThemeChanged"
    /\ theme = "dark"

\* C2: a completion whose body parses as JSON and contains the member
\* archived_snapshots.closest.url makes, within that one step, the call
\* LoadURL with the URL held in that member and then the call RemoveInfoBar,
\* in this order.
C2_FieldNavigatesThenRemoves ==
    [][ (CompletionHandled /\ HasField(last'.body))
          => /\ Len(calls') = Len(calls) + 2
             /\ SubSeq(calls', 1, Len(calls)) = calls
             /\ calls'[Len(calls) + 1].call = "LoadURL"
             /\ HasStringField(last'.body)
                  => calls'[Len(calls) + 1] = LoadURLCall(FieldString(last'.body))
             /\ calls'[Len(calls) + 2] = RemoveInfoBarCall
             /\ view_state' = "closing" ]_vars

\* C3: after a completion with no body, with a body that is not JSON or with
\* a JSON document that lacks archived_snapshots.closest.url, the
\* before-check controls are hidden and the after-check controls visible.
C3_NoFieldShowsFailure ==
    (last.op = "OnWaybackURLFetched" /\ ~HasField(last.body))
        => (BeforeCheckHidden /\ AfterCheckShown)

\* The two outcomes of a completion step, as the step changes the state.
C4_SuccessOutcome ==
    /\ Len(calls') = Len(calls) + 2
    /\ SubSeq(calls', 1, Len(calls)) = calls
    /\ calls'[Len(calls) + 1].call = "LoadURL"
    /\ calls'[Len(calls) + 2].call = "RemoveInfoBar"
    /\ visible' = visible

C4_FailureOutcome ==
    /\ calls' = calls
    /\ view_state' = view_state
    /\ BeforeCheckHidden'
    /\ AfterCheckShown'

\* C4: every handled completion has exactly one of the two outcomes:
\* success (LoadURL then RemoveInfoBar, visibility unchanged) or failure (the
\* controls switched to the after-check set, no call made, not removed).
C4_ExactlyOneOutcome ==
    [][ CompletionHandled => (C4_SuccessOutcome # C4_FailureOutcome) ]_vars

\* C5: a completion whose document does not hold a string at
\* archived_snapshots.closest.url is no success: no LoadURL and no
\* RemoveInfoBar call is made and the infobar is not removed.
C5_OnlyStringFieldSucceeds ==
    [][ (CompletionHandled /\ ~HasStringField(last'.body))
          => (calls' = calls /\ view_state' = view_state) ]_vars

\* A completion brought a document whose member at the path is no string,
\* and no call was made.
C5_Witness ==
    /\ last.op = "OnWaybackURLFetched"
    /\ HasField(last.body)
    /\ ~HasStringField(last.body)
    /\ calls = <<>>
    /\ view_state = "shown"
    /\ crashed

\* C6: a button press issues exactly one request, for the fixed prefix
\* followed by the tab's visible URL as it is when the button is pressed.
C6_RequestForURLAtPress ==
    [][ presses' = presses + 1
          => /\ Len(requests') = Len(requests) + 1
             /\ SubSeq(requests', 1, Len(requests)) = requests
             /\ requests'[Len(requests')].is_valid
             /\ requests'[Len(requests')].spec = kWaybackQueryURL \o visible_url ]_vars

\* Two presses asked for two different pages, and the page shown now is not
\* the one the last request was made for.
C6_Witness ==
    /\ Len(requests) = 2
    /\ requests[1] # requests[2]
    /\ requests[2].spec # kWaybackQueryURL \o visible_url
    /\ view_state = "shown"

\* C7: requests are issued by button presses only: as many requests as
\* presses in every state, and no step other than a press adds a request.
C7_NoRetry ==
    /\ [](Len(requests) = presses)
    /\ [][ requests' # requests => presses' = presses + 1 ]_vars

\* A lookup failed, and the only request made is the one of the press.
C7_Witness ==
    /\ last.op = "OnWaybackURLFetched"
    /\ AfterCheckShown
    /\ presses = 1
    /\ Len(requests) = 1
    /\ pending = {}

\* C8: at most one loader is pending and it is the one the view holds; a
\* completion is handled only for the held loader of a view that exists; a
\* destroyed view has no pending loader and no completion ran on one.
C8_OnlyHeldLoaderCompletes ==
    /\ Cardinality(pending) <= 1
    /\ pending \subseteq {wayback_url_fetcher_}
    /\ view_state = "destroyed" => pending = {}
    /\ ~use_after_free
    /\ last.op = "OnWaybackURLFetched"
         => (last.id = wayback_url_fetcher_ /\ view_state # "destroyed")

\* The second loader completed while the answer to the first, superseded
\* request was still on its way.
C8_Witness ==
    /\ last.op = "OnWaybackURLFetched"
    /\ last.id = 2
    /\ 1 \in inflight
    /\ pending = {}

\* C9: over the life of the infobar LoadURL is called at most once and
\* RemoveInfoBar at most once.
C9_AtMostOneNavigationAndRemoval ==
    NumCalls("LoadURL") <= 1 /\ NumCalls("RemoveInfoBar") <= 1

\* C10: once the after-check controls are shown they stay shown and the
\* before-check controls stay hidden; no request is issued, no completion
\* handled and no LoadURL or RemoveInfoBar call made from then on.
C10_FailureIsAbsorbing ==
    [][ AfterCheckShown
          => /\ AfterCheckShown' /\ BeforeCheckHidden'
             /\ requests' = requests
             /\ handled' = handled
             /\ calls' = calls ]_vars

\* The failure state outlived a later event while presses were still left.
C10_Witness ==
    /\ AfterCheckShown /\ BeforeCheckHidden
    /\ last.op = "VisibleURLChanged"
    /\ presses < MaxPresses
    /\ view_state = "shown"

====
